---------------------------- MODULE Spec2Model ----------------------------
(***************************************************************************)
(* A model of crp.py, the California Revealed Project Dublin Core          *)
(* metadata generator.  Python str values are TLA+ strings; a value that   *)
(* may be None is a sequence of length at most one (<<>> is None, <<s>> is *)
(* the string s); a dict is a function from its keys; an lxml element is a *)
(* record [id, tag, attrib, text, children], where id names the variable   *)
(* that holds the element and text is <<>> when it has no text node.       *)
(***************************************************************************)
EXTENDS Naturals, Sequences, FiniteSets, TLC

VARIABLES
    pc,                 \* position of the operation being run
    contents,           \* analyse_folder: os.listdir(folder_name), a set of names
    file_info_list,     \* analyse_folder: the list of dictionaries returned
    manifest,           \* extract_checksum: the manifest file's content, <<>> when missing
    checksum,           \* extract_checksum: what the call returned or raised
    tool,               \* what the files hold: "any" output of the tool or a "typical" one
    csv_data,           \* the list of descriptive records
    record_idx,         \* the position of csv_record in csv_data
    package_info,       \* techncial_metadata: the units of the archival object
    package_idx,        \* techncial_metadata: the position of package in package_info
    keys,               \* techncial_metadata: the keys of package still to visit
    sub_item,           \* techncial_metadata: the loop variable of the inner loop
    instantiation_counter,
    exiftool_json,      \* techncial_metadata: the tool's last output, <<>> when it failed
    AssetPart,          \* the children of the AssetPart element
    raised,             \* the uncaught exception that ended the run, "" when none
    csv_file,           \* main: the descriptive table, a header and rows of cells
    source_folder,      \* main: the entries of the input directory
    folders,            \* main: sorted(folder_contents)
    folder_idx,         \* main: the position of folder in folders
    root,               \* main: root_metadata_element
    written,            \* main: the paths of the files written
    file_list,          \* find_csv: os.listdir(source_directory), in its order
    csv_path            \* find_csv: the path chosen, "" when none

vars == <<pc, contents, file_info_list, manifest, checksum, tool, csv_data,
          record_idx, package_info, package_idx, keys, sub_item,
          instantiation_counter, exiftool_json, AssetPart, raised, csv_file,
          source_folder, folders, folder_idx, root, written, file_list,
          csv_path>>

mainVars == <<csv_file, source_folder, folders, folder_idx, root, written>>

findVars == <<file_list, csv_path>>

techVars == <<tool, csv_data, record_idx, package_info, package_idx, keys,
              sub_item, instantiation_counter, exiftool_json, AssetPart, raised>>

-----------------------------------------------------------------------------
(* Python str operations *)

\* The characters that occur in the model, in code point order.
Alphabet == "\n \"()./0123456789=ABCDEFGHIJKLMNOPQRSTUVWXYZ_abcdefghijklmnopqrstuvwxyz"

\* The rank of a one-character string among the code points.
Ord(c) == CHOOSE i \in 1..Len(Alphabet) : SubSeq(Alphabet, i, i) = c

CharAt(s, i) == SubSeq(s, i, i)

\* s.startswith(p)
StartsWith(s, p) == Len(s) >= Len(p) /\ SubSeq(s, 1, Len(p)) = p

\* s.endswith(p)
EndsWith(s, p) == Len(s) >= Len(p) /\ SubSeq(s, Len(s) - Len(p) + 1, Len(s)) = p

\* s[n:]
From(s, n) == IF n >= Len(s) THEN "" ELSE SubSeq(s, n + 1, Len(s))

\* s[:n]
UpTo(s, n) == IF n >= Len(s) THEN s ELSE IF n = 0 THEN "" ELSE SubSeq(s, 1, n)

\* s.replace(old, new, count): the leftmost non-overlapping occurrences,
\* at most count of them.
RECURSIVE ReplaceN(_, _, _, _)
ReplaceN(s, old, new, count) ==
    IF count = 0 \/ Len(s) < Len(old) THEN s
    ELSE IF StartsWith(s, old)
         THEN new \o ReplaceN(From(s, Len(old)), old, new, count - 1)
         ELSE CharAt(s, 1) \o ReplaceN(From(s, 1), old, new, count)

\* s.replace(old, new): every occurrence.
Replace(s, old, new) == ReplaceN(s, old, new, Len(s))

\* a < b for str: code point order, a proper prefix first.
RECURSIVE StrLess(_, _)
StrLess(a, b) ==
    IF Len(b) = 0 THEN FALSE
    ELSE IF Len(a) = 0 THEN TRUE
    ELSE IF CharAt(a, 1) = CharAt(b, 1) THEN StrLess(From(a, 1), From(b, 1))
    ELSE Ord(CharAt(a, 1)) < Ord(CharAt(b, 1))

\* sorted(S) for a set of distinct str.
RECURSIVE Sorted(_)
Sorted(S) ==
    IF S = {} THEN <<>>
    ELSE LET m == CHOOSE x \in S : \A y \in S \ {x} : StrLess(x, y)
         IN  <<m>> \o Sorted(S \ {m})

\* reversed(seq)
RECURSIVE Reversed(_)
Reversed(q) == IF q = <<>> THEN <<>> ELSE Reversed(Tail(q)) \o <<Head(q)>>

\* os.path.join(a, b) for a relative name b.
Join(a, b) == a \o "/" \o b

\* os.path.basename(path)
RECURSIVE Basename(_)
Basename(path) ==
    IF \E i \in 1..Len(path) : CharAt(path, i) = "/"
    THEN Basename(From(path, CHOOSE i \in 1..Len(path) : CharAt(path, i) = "/"))
    ELSE path

-----------------------------------------------------------------------------
(* analyse_folder *)

\* os.path.isfile(os.path.join(folder_name, name)): every entry of the
\* listing is a regular file.
IsFile(listing, name) == name \in listing

\* The dictionary built for one preservation master (lines 72-98).
TiffUnit(folder_name, listing, files) ==
    LET variant == Replace(files, "prsv.tif", "01_prsv.tif")
        base == [k \in {"Preservation", "master_checksum", "Access", "access_checksum"} |->
                    CASE k = "Preservation" -> Join(folder_name, files)
                      [] k = "master_checksum" -> Join(folder_name, files) \o ".md5"
                      [] k = "Access" ->
                            Join(folder_name, Replace(files, "prsv.tif", "access.jpg"))
                      [] k = "access_checksum" ->
                            Join(folder_name, Replace(files, "prsv.tif", "access.jpg")) \o ".md5"]
        extra == [k \in {"Preservation_01", "Preservation_01_md5", "Access_01", "Access_01_md5"} |->
                    CASE k = "Preservation_01" -> Join(folder_name, variant)
                      [] k = "Preservation_01_md5" -> Join(folder_name, variant \o ".md5")
                      [] k = "Access_01" ->
                            Join(folder_name, Replace(files, "prsv.tif", "01_access.jpg"))
                      [] k = "Access_01_md5" ->
                            Join(folder_name, Replace(files, "prsv.tif", "01_access.jpg") \o ".md5")]
    IN  IF IsFile(listing, variant) THEN base @@ extra ELSE base

\* The dictionary built for one PDF (lines 100-107).
PdfUnit(folder_name, files) ==
    [k \in {"Print", "print_checksum"} |->
        IF k = "Print" THEN Join(folder_name, files)
        ELSE Join(folder_name, files) \o ".md5"]

\* UnitsOf without the test that skips the variant masters.
UnitsOf_VariantNotSkipped(folder_name, listing, files) ==
    IF StartsWith(files, ".") THEN <<>>
    ELSE IF EndsWith(files, "prsv.tif") THEN <<TiffUnit(folder_name, listing, files)>>
    ELSE IF EndsWith(files, ".pdf") THEN <<PdfUnit(folder_name, files)>>
    ELSE <<>>

\* The units one directory entry contributes (lines 69-107).
UnitsOf(folder_name, listing, files) ==
    IF StartsWith(files, ".") THEN <<>>
    ELSE IF EndsWith(files, "_01_prsv.tif") THEN <<>>
    ELSE IF EndsWith(files, "prsv.tif") THEN <<TiffUnit(folder_name, listing, files)>>
    ELSE IF EndsWith(files, ".pdf") THEN <<PdfUnit(folder_name, files)>>
    ELSE <<>>

RECURSIVE ScanContents(_, _, _)
ScanContents(folder_name, listing, rest) ==
    IF rest = <<>> THEN <<>>
    ELSE UnitsOf(folder_name, listing, Head(rest))
            \o ScanContents(folder_name, listing, Tail(rest))

analyse_folder(folder_name, listing) ==
    ScanContents(folder_name, listing, Sorted(listing))

\* The directory analyse_folder is applied to.
FolderName == "in/obj"

\* The names a listing is drawn from.
FileNames ==
    { "a_prsv.tif", "a_01_prsv.tif", "a_access.jpg", "a_prsv.tif.md5",
      "b_prsv.tif", "b_01_prsv.tif", ".a_prsv.tif", ".c_01_prsv.tif",
      "aprsv.tif", "a01_prsv.tif", "prsv.tif", "01_prsv.tif", "_01_prsv.tif",
      "a.pdf", "b.pdf", ".b.pdf", "notes.txt" }

\* The largest listing analysed.
MaxFiles == 3

Listings == { l \in SUBSET FileNames : Cardinality(l) <= MaxFiles }

AnalyseIdle == contents = {} /\ file_info_list = <<>>

ChecksumIdle == manifest = <<>> /\ checksum = [raised |-> "", value |-> ""]

TechIdle ==
    /\ tool = "typical"
    /\ csv_data = <<>>
    /\ record_idx = 1
    /\ package_info = <<>>
    /\ package_idx = 1
    /\ keys = <<>>
    /\ sub_item = ""
    /\ instantiation_counter = 1
    /\ exiftool_json = <<>>
    /\ AssetPart = <<>>
    /\ raised = ""

MainIdle ==
    /\ csv_file = [header |-> <<>>, rows |-> <<>>]
    /\ source_folder = <<>>
    /\ folders = <<>>
    /\ folder_idx = 1
    /\ root = <<>>
    /\ written = {}

FindIdle == file_list = <<>> /\ csv_path = ""

InitAnalyse ==
    /\ pc = "analyse"
    /\ contents \in Listings
    /\ file_info_list = <<>>
    /\ ChecksumIdle
    /\ TechIdle
    /\ MainIdle
    /\ FindIdle

AnalyseFolder ==
    /\ pc = "analyse"
    /\ file_info_list' = analyse_folder(FolderName, contents)
    /\ pc' = "analysed"
    /\ UNCHANGED <<contents, manifest, checksum, techVars, mainVars,
                   findVars>>

NextAnalyse == AnalyseFolder

SpecAnalyse == InitAnalyse /\ [][NextAnalyse]_vars

-----------------------------------------------------------------------------
(* extract_checksum *)

\* The first element of readlines(): the text up to and including the first
\* newline.
RECURSIVE FirstLine(_)
FirstLine(text) ==
    IF Len(text) = 0 THEN ""
    ELSE IF CharAt(text, 1) = "\n" THEN "\n"
    ELSE CharAt(text, 1) \o FirstLine(From(text, 1))

\* extract_checksum(manifest) for the content of the manifest file: open()
\* raises IOError for a missing file, manifest_line[0] raises IndexError for
\* an empty one.
extract_checksum(file) ==
    IF file = <<>> THEN [raised |-> "IOError", value |-> ""]
    ELSE IF Len(file[1]) = 0 THEN [raised |-> "IndexError", value |-> ""]
    ELSE [raised |-> "", value |-> UpTo(FirstLine(file[1]), 32)]

\* A line longer than a checksum, of which a manifest's first line takes a
\* prefix.
TokenText == "d41d8cd98f00b204e9800998ecf8427e0123456789abcdef"

\* The longest prefix of TokenText a manifest starts with.
MaxTokenLen == 34

\* What follows the token in a manifest.
ManifestTails == { "", "\n", "  a_prsv.tif\n", "  a_prsv.tif\nffff  b_prsv.tif\n", "\n\n" }

Manifests ==
    { <<>> } \cup { <<UpTo(TokenText, n) \o t>> : n \in 0..MaxTokenLen, t \in ManifestTails }

InitChecksum ==
    /\ pc = "extract"
    /\ manifest \in Manifests
    /\ checksum = [raised |-> "", value |-> ""]
    /\ AnalyseIdle
    /\ TechIdle
    /\ MainIdle
    /\ FindIdle

ExtractChecksum ==
    /\ pc = "extract"
    /\ checksum' = extract_checksum(manifest)
    /\ pc' = "extracted"
    /\ UNCHANGED <<manifest, contents, file_info_list, techVars, mainVars,
                   findVars>>

NextChecksum == ExtractChecksum

SpecChecksum == InitChecksum /\ [][NextChecksum]_vars

-----------------------------------------------------------------------------
(* lxml elements *)

\* ET.Element(tag), held by the variable named id: no attribute, no text
\* node, no child.
ElementAs(id, tag) ==
    [id |-> id, tag |-> tag, attrib |-> <<>>, text |-> <<>>, children |-> <<>>]

\* An element held under the name of its tag.
Element(tag) == ElementAs(tag, tag)

\* parent.insert(index, element) on the list of children, for index >= 0:
\* past the end it appends.
Insert(children, index, element) ==
    IF index >= Len(children) THEN Append(children, element)
    ELSE SubSeq(children, 1, index) \o <<element>>
            \o SubSeq(children, index + 1, Len(children))

\* element.attrib[key] = value
SetAttrib(element, key, value) ==
    [element EXCEPT !.attrib = (key :> value) @@ @]

\* handle.text = value, for the child the variable id holds: an empty
\* string leaves an empty text node.
SetText(children, id, value) ==
    [i \in 1..Len(children) |->
        IF children[i].id = id THEN [children[i] EXCEPT !.text = <<value>>]
        ELSE children[i]]

\* handle.attrib[key] = value, for the child the variable id holds.
SetChildAttrib(children, id, key, value) ==
    [i \in 1..Len(children) |->
        IF children[i].id = id THEN SetAttrib(children[i], key, value)
        ELSE children[i]]

\* handle.getparent().remove(handle)
RECURSIVE Remove(_, _)
Remove(children, id) ==
    IF children = <<>> THEN <<>>
    ELSE IF Head(children).id = id THEN Tail(children)
    ELSE <<Head(children)>> \o Remove(Tail(children), id)

\* handle.getparent().index(handle)
IndexOf(children, id) == (CHOOSE i \in 1..Len(children) : children[i].id = id) - 1

-----------------------------------------------------------------------------
(* Numbers and JSON values *)

\* str(n) for an int n >= 0
RECURSIVE IntToStr(_)
IntToStr(n) ==
    IF n < 10 THEN CharAt("0123456789", n + 1)
    ELSE IntToStr(n \div 10) \o CharAt("0123456789", (n % 10) + 1)

IsDigit(c) == \E d \in 1..10 : CharAt("0123456789", d) = c

\* Whether int(s) accepts s: decimal digits only (a token of split() holds
\* no white space).
IsNumeral(s) == Len(s) > 0 /\ \A i \in 1..Len(s) : IsDigit(CharAt(s, i))

\* int(s) for a numeral
RECURSIVE ParseInt(_)
ParseInt(s) ==
    IF Len(s) = 0 THEN 0
    ELSE 10 * ParseInt(UpTo(s, Len(s) - 1))
            + ((CHOOSE d \in 1..10 : CharAt("0123456789", d) = CharAt(s, Len(s))) - 1)

\* s.split(): the maximal runs without white space.
RECURSIVE Split(_, _)
Split(s, word) ==
    IF Len(s) = 0 THEN (IF Len(word) = 0 THEN <<>> ELSE <<word>>)
    ELSE IF CharAt(s, 1) \in {" ", "\n"}
         THEN (IF Len(word) = 0 THEN <<>> ELSE <<word>>) \o Split(From(s, 1), "")
         ELSE Split(From(s, 1), word \o CharAt(s, 1))

\* s.lower()
Lower(s) ==
    LET up == "ABCDEFGHIJKLMNOPQRSTUVWXYZ"
        lo == "abcdefghijklmnopqrstuvwxyz"
        low(c) == IF \E i \in 1..26 : CharAt(up, i) = c
                  THEN CharAt(lo, CHOOSE i \in 1..26 : CharAt(up, i) = c)
                  ELSE c
        RECURSIVE go(_)
        go(t) == IF Len(t) = 0 THEN "" ELSE low(CharAt(t, 1)) \o go(From(t, 1))
    IN  go(s)

\* A value of the tool's JSON output: a number [num |-> n] or a string
\* [str |-> s].
Num(n) == [num |-> n]
Str(s) == [str |-> s]

\* str(value)
ToStr(v) == IF "num" \in DOMAIN v THEN IntToStr(v.num) ELSE v.str

\* Whether int(value) raises ValueError.
IntRaises(v) == "str" \in DOMAIN v /\ ~IsNumeral(v.str)

\* int(value)
ToInt(v) == IF "num" \in DOMAIN v THEN v.num ELSE ParseInt(v.str)

RECURSIVE SumInts(_)
SumInts(words) ==
    IF words = <<>> THEN 0 ELSE ParseInt(Head(words)) + SumInts(Tail(words))

\* str(round(size / 1024 / 1024.0, 2)): whole kibibytes, then hundredths of
\* a mebibyte rounded half up, printed as a float.
SizeText(bytes) ==
    LET kib == bytes \div 1024
        hundredths == (kib * 200 + 1024) \div 2048
        frac == hundredths % 100
    IN  IntToStr(hundredths \div 100) \o "." \o
            (IF frac % 10 = 0 THEN IntToStr(frac \div 10)
             ELSE IntToStr(frac \div 10) \o IntToStr(frac % 10))

-----------------------------------------------------------------------------
(* create_instantiations *)

\* The technical elements in the order of the list of lines 315-334.
TechnicalFields ==
    << "digitalFileIdentifier", "creationDate", "fileExtension",
       "standardAndFileWrapper", "size", "bitDepth", "imageWidth", "imageLength",
       "compression", "samplesPerPixel", "xResolution", "yResolution", "md5",
       "creatingApplicationAndVersion", "derivedFrom", "digitizerManufacturer",
       "digitizerModel", "imageProducer" >>

\* The index the next technical element is inserted at (lines 341-342): it
\* advances for every generation but Print.
NextIndex(counter, generation) ==
    IF generation # "Print" THEN counter + 1 ELSE counter

\* The loop of lines 315-342: each element is inserted at index counter.
RECURSIVE InsertTechnical(_, _, _, _)
InsertTechnical(children, fields, counter, generation) ==
    IF fields = <<>> THEN children
    ELSE InsertTechnical(Insert(children, counter, Element(Head(fields))),
                         Tail(fields), NextIndex(counter, generation), generation)

\* The relationship attribute of lines 300-303.
Relationship(instantation_counter, generation) ==
    IF generation = "Print" THEN "object"
    ELSE "Page " \o IntToStr(instantation_counter)

\* The instantations element create_instantiations appends to AssetPart,
\* with its instantation and technical descendants.
create_instantiations(instantation_counter, generation) ==
    LET technical == [Element("technical") EXCEPT
                        !.children = InsertTechnical(<<>>, TechnicalFields, 1, generation)]
        instantation == [SetAttrib(Element("instantation"), "generation", generation)
                            EXCEPT !.children = <<technical>>]
    IN  [SetAttrib(Element("instantations"), "relationship",
                   Relationship(instantation_counter, generation))
            EXCEPT !.children = <<instantation>>]

\* The children of the technical element below an instantations element.
TechnicalOf(instantations) == instantations.children[1].children[1].children

WithTechnical(instantations, children) ==
    [instantations EXCEPT !.children[1].children[1].children = children]

-----------------------------------------------------------------------------
(* techncial_metadata: one pass of the inner loop *)

Generations == {"Access", "Preservation", "Print", "Preservation_01", "Access_01"}

\* Lines 355-360.
InstantiationGeneration(item) ==
    CASE item = "Preservation_01" -> "Preservation"
      [] item = "Access_01" -> "Access"
      [] OTHER -> item

\* The key of the unit that holds the manifest of a generation (lines 405-419).
ChecksumKey(item) ==
    CASE item = "Preservation" -> "master_checksum"
      [] item = "Access" -> "access_checksum"
      [] item = "Print" -> "print_checksum"
      [] item = "Preservation_01" -> "Preservation_01_md5"
      [] item = "Access_01" -> "Access_01_md5"

\* derivedFrom.text (lines 405-419).
DerivedFrom(item, package, object_identifier) ==
    CASE item \in {"Preservation", "Preservation_01"} -> object_identifier
      [] item \in {"Access", "Access_01"} -> Basename(package["Preservation"])
      [] item = "Print" -> "Bound from multiple tiff files"

\* Lines 393-400: the exception raised, "" when none.
BitDepthRaises(output) ==
    IF "BitsPerSample" \notin DOMAIN output THEN "KeyError"
    ELSE IF Len(ToStr(output["BitsPerSample"])) > 1
         THEN (IF \E i \in 1..Len(Split(ToStr(output["BitsPerSample"]), "")) :
                     ~IsNumeral(Split(ToStr(output["BitsPerSample"]), "")[i])
               THEN "ValueError" ELSE "")
         ELSE IF IntRaises(output["BitsPerSample"]) THEN "ValueError"
         ELSE IF "ColorComponents" \notin DOMAIN output THEN "KeyError"
         ELSE IF IntRaises(output["ColorComponents"]) THEN "ValueError"
         ELSE ""

\* Lines 393-400: bitDepth.text.
BitDepth(output) ==
    IF Len(ToStr(output["BitsPerSample"])) > 1
    THEN IntToStr(SumInts(Split(ToStr(output["BitsPerSample"]), "")))
    ELSE IntToStr(ToInt(output["BitsPerSample"])
                    * ToInt(output["ColorComponents"]))

\* Lines 420-439: one optional field, set from the tool's output or removed.
Optional(children, tag, key, output) ==
    IF key \in DOMAIN output
    THEN SetText(children, tag, ToStr(output[key]))
    ELSE Remove(children, tag)

\* Lines 361-439 for one generation key of a unit.  file is the tool's
\* output for package[sub_item] (<<>> when the tool fails on it), bytes the
\* file's size, manifest_file the content of the generation's manifest.
\* The result is the instantations element as the pass leaves it and the
\* exception that ended the pass ("" when it ran to its end).
Instantiation(package, item, counter, file, bytes, manifest_file, object_identifier) ==
    LET created == create_instantiations(counter,
                                         InstantiationGeneration(item))
        output == file[1]
        t0 == SetText(TechnicalOf(created), "md5", "")
        t1 == SetText(t0, "digitalFileIdentifier", Basename(package[item]))
        t2 == SetText(t1, "creationDate",
                      UpTo(ReplaceN(ToStr(output["FileModifyDate"]), ":", "-", 2), 19))
        t3 == SetChildAttrib(SetText(t2, "size", SizeText(bytes)), "size", "unit", "megabytes")
        t4 == SetText(t3, "standardAndFileWrapper", ToStr(output["MIMEType"]))
        t5 == SetText(t4, "fileExtension", ToStr(output["FileTypeExtension"]))
        raster == Lower(ToStr(output["FileTypeExtension"])) # "pdf"
        t6 == IF raster THEN SetText(t5, "bitDepth", BitDepth(output)) ELSE t5
        t6a == SetText(t6, "imageWidth", ToStr(output["ImageWidth"]))
        t6b == SetText(t6a, "imageLength", ToStr(output["ImageHeight"]))
        t6c == SetText(t6b, "xResolution", ToStr(output["XResolution"]))
        t7 == IF raster
              THEN SetText(t6c, "yResolution", ToStr(output["YResolution"]))
              ELSE t6
        t8 == SetText(t7, "derivedFrom", DerivedFrom(item, package, object_identifier))
        sum == extract_checksum(manifest_file)
        t9 == SetText(t8, "md5", sum.value)
        t10 == Optional(t9, "samplesPerPixel", "ColorComponents", output)
        t11 == Optional(t10, "compression", "Compression", output)
        t12 == Optional(t11, "creatingApplicationAndVersion", "CreatorTool", output)
        t13 == Optional(t12, "digitizerManufacturer", "Make", output)
        t14 == Optional(t13, "digitizerModel", "Model", output)
        out(exception, children) ==
            [raised |-> exception, element |-> WithTechnical(created, children)]
    IN  IF file = <<>> THEN out("CalledProcessError", t0)
        ELSE IF "FileModifyDate" \notin DOMAIN output THEN out("KeyError", t1)
        ELSE IF "MIMEType" \notin DOMAIN output THEN out("KeyError", t3)
        ELSE IF "FileTypeExtension" \notin DOMAIN output THEN out("KeyError", t4)
        ELSE IF raster /\ BitDepthRaises(output) # ""
             THEN out(BitDepthRaises(output), t5)
        ELSE IF raster /\ "ImageWidth" \notin DOMAIN output THEN out("KeyError", t6)
        ELSE IF raster /\ "ImageHeight" \notin DOMAIN output THEN out("KeyError", t6a)
        ELSE IF raster /\ "XResolution" \notin DOMAIN output THEN out("KeyError", t6b)
        ELSE IF raster /\ "YResolution" \notin DOMAIN output THEN out("KeyError", t6c)
        ELSE IF item \in {"Access", "Access_01"} /\ "Preservation" \notin DOMAIN package
             THEN out("KeyError", t7)
        ELSE IF sum.raised # "" THEN out(sum.raised, t8)
        ELSE out("", t14)

-----------------------------------------------------------------------------
(* The technical-metadata tool, the file sizes and the manifests *)

Restrict(f, S) == [k \in S |-> f[k]]

MimeType(ext) ==
    CASE ext = "tif" -> "image/tiff"
      [] ext = "jpg" -> "image/jpeg"
      [] ext = "pdf" -> "application/pdf"

\* The fields the tool reports for every file it reads.
FileFields(ext) ==
    [FileModifyDate |-> Str("2019:03:05 10:11:12-08:00"),
     MIMEType |-> Str(MimeType(ext)),
     FileTypeExtension |-> Str(ext)]

ImageFields ==
    [ImageWidth |-> Num(640), ImageHeight |-> Num(480),
     XResolution |-> Num(300), YResolution |-> Num(300)]

OptionalFields ==
    [Compression |-> Str("LZW"), CreatorTool |-> Str("Scan 2.0"),
     Make |-> Str("Epson"), Model |-> Str("V800")]

BitsPerSampleValues == {Num(8), Num(16), Str("8 8 8"), Str("16 16 16")}

ColorComponentsValues == {Num(1), Num(3)}

\* Every output of the tool the model considers: a raster file or a PDF,
\* with or without BitsPerSample, ColorComponents and each optional field.
ExifOutputs ==
    { (FileFields(ext) @@ (IF ext = "pdf" THEN <<>> ELSE ImageFields)
        @@ bits @@ colors @@ Restrict(OptionalFields, opt)) :
        ext \in {"tif", "pdf"},
        bits \in {<<>>} \cup { [BitsPerSample |-> b] : b \in BitsPerSampleValues },
        colors \in {<<>>} \cup { [ColorComponents |-> c] : c \in ColorComponentsValues },
        opt \in SUBSET DOMAIN OptionalFields }

\* What the tool reports for the kinds of file a package usually holds:
\* a TIFF master, a JPEG derivative, a PDF.
TypicalOutputs(path) ==
    IF EndsWith(path, ".tif")
    THEN { FileFields("tif") @@ ImageFields @@ [BitsPerSample |-> Str("8 8 8")]
            @@ Restrict(OptionalFields, opt) :
            opt \in {{"Compression"}, {"Compression", "Make", "Model"}} }
    ELSE IF EndsWith(path, ".jpg")
    THEN { FileFields("jpg") @@ ImageFields
            @@ [BitsPerSample |-> Num(8), ColorComponents |-> Num(3)] }
    ELSE { FileFields("pdf") @@ Restrict(OptionalFields, {"CreatorTool"}) }

\* get_exiftool_json(path): <<>> when the tool fails (the file is not there).
ToolOutputs(mode, listing, path) ==
    IF Basename(path) \notin listing THEN { <<>> }
    ELSE IF mode = "any" THEN { <<x>> : x \in ExifOutputs }
    ELSE { <<x>> : x \in TypicalOutputs(path) }

\* os.path.getsize(path)
FileSizes(mode) == IF mode = "any" THEN {0, 1271808} ELSE {1572864}

\* The content of the manifest at path, <<>> when it is not there.
ManifestFiles(mode, listing, path) ==
    IF Basename(path) \notin listing THEN { <<>> }
    ELSE IF mode = "any"
         THEN { <<"">>, <<"abc  f\n">>, <<UpTo(TokenText, 32) \o "  f\n">> }
         ELSE { <<UpTo(TokenText, 32) \o "  f\n">> }

-----------------------------------------------------------------------------
(* techncial_metadata *)

\* The keys in ascending order.
SubItems_Ascending(package) == Sorted(DOMAIN package)

\* sorted(package.keys(), reverse=True)
SubItems(package) == Reversed(Sorted(DOMAIN package))

\* A descriptive record with the one field techncial_metadata reads
\* (lines 406 and 415).
Record(object_identifier) ==
    [f \in {"Object Identifier"} |-> object_identifier]

\* The inner loop's body for the next key of the unit (lines 352-439).
SubItem ==
    /\ pc = "tech"
    /\ package_idx <= Len(package_info)
    /\ keys # <<>>
    /\ sub_item' = Head(keys)
    /\ keys' = Tail(keys)
    /\ IF Head(keys) \in Generations
       THEN LET package == package_info[package_idx] IN
            \E file \in ToolOutputs(tool, contents, package[Head(keys)]),
               bytes \in FileSizes(tool),
               manifest_file \in ManifestFiles(tool, contents,
                                               package[ChecksumKey(Head(keys))]) :
                LET r == Instantiation(package, Head(keys), instantiation_counter,
                                       file, bytes, manifest_file,
                                       csv_data[record_idx]["Object Identifier"])
                IN  /\ AssetPart' = Append(AssetPart, r.element)
                    /\ exiftool_json' = file
                    /\ raised' = r.raised
                    /\ pc' = IF r.raised = "" THEN "tech" ELSE "failed"
       ELSE UNCHANGED <<AssetPart, exiftool_json, raised, pc>>
    /\ UNCHANGED <<contents, file_info_list, manifest, checksum, tool, csv_data,
                   record_idx, package_info, package_idx, instantiation_counter,
                   mainVars,
                   findVars>>

\* The end of the outer loop's body (lines 440-441) and the step to the
\* next unit.
EndPackage ==
    /\ pc = "tech"
    /\ package_idx <= Len(package_info)
    /\ keys = <<>>
    /\ instantiation_counter' =
          IF sub_item # "Print" THEN instantiation_counter + 1
          ELSE instantiation_counter
    /\ package_idx' = package_idx + 1
    /\ keys' = IF package_idx + 1 <= Len(package_info)
               THEN SubItems(package_info[package_idx + 1]) ELSE <<>>
    /\ UNCHANGED <<pc, contents, file_info_list, manifest, checksum, tool, csv_data,
                   record_idx, package_info, sub_item, exiftool_json, AssetPart,
                   raised, mainVars,
                   findVars>>

\* techncial_metadata returns.
TechReturn ==
    /\ pc = "tech"
    /\ package_idx > Len(package_info)
    /\ pc' = "tech_done"
    /\ UNCHANGED <<contents, file_info_list, manifest, checksum, techVars, mainVars,
                   findVars>>

\* The files of a complete page, of its variant, and of a print copy.
PagePack(stem) ==
    { stem \o "_prsv.tif", stem \o "_prsv.tif.md5",
      stem \o "_access.jpg", stem \o "_access.jpg.md5" }

VariantPack(stem) ==
    { stem \o "_01_prsv.tif", stem \o "_01_prsv.tif.md5",
      stem \o "_01_access.jpg", stem \o "_01_access.jpg.md5" }

PrintPack(stem) == { stem \o ".pdf", stem \o ".pdf.md5" }

Packs == { PagePack("a"), VariantPack("a"), PrintPack("b"), PagePack("c"),
           PrintPack("d") }

\* The number of files that may be missing from a package.
MaxMissing == 1

\* The packages techncial_metadata is run on: some of the packs, with up to
\* MaxMissing of their files missing.
PackageListings ==
    { (UNION ps) \ gone :
        ps \in SUBSET Packs,
        gone \in { g \in SUBSET (UNION Packs) : Cardinality(g) <= MaxMissing } }

InitTech ==
    /\ pc = "tech"
    /\ contents \in PackageListings
    /\ file_info_list = <<>>
    /\ ChecksumIdle
    /\ tool = "typical"
    /\ csv_data = <<Record("obj")>>
    /\ record_idx = 1
    /\ package_info = analyse_folder(FolderName, contents)
    /\ package_idx = 1
    /\ keys = IF package_info = <<>> THEN <<>> ELSE SubItems(package_info[1])
    /\ sub_item = ""
    /\ instantiation_counter = 1
    /\ exiftool_json = <<>>
    /\ AssetPart = <<>>
    /\ raised = ""
    /\ MainIdle
    /\ FindIdle

NextTech == SubItem \/ EndPackage \/ TechReturn

SpecTech == InitTech /\ [][NextTech]_vars

-----------------------------------------------------------------------------
(* One pass of the inner loop of techncial_metadata, on any output of the tool *)

\* The largest page number a pass is run with.
MaxPage == 2

InitInstantiation ==
    /\ pc = "instantiation"
    /\ contents = PagePack("a") \cup VariantPack("a") \cup PrintPack("b")
    /\ file_info_list = <<>>
    /\ ChecksumIdle
    /\ tool = "any"
    /\ csv_data = <<Record("obj")>>
    /\ record_idx = 1
    /\ package_info = analyse_folder(FolderName, contents)
    /\ package_idx \in 1..Len(package_info)
    /\ \E k \in DOMAIN package_info[package_idx] \cap Generations : keys = <<k>>
    /\ sub_item = ""
    /\ instantiation_counter \in 1..MaxPage
    /\ exiftool_json = <<>>
    /\ AssetPart = <<>>
    /\ raised = ""
    /\ MainIdle
    /\ FindIdle

\* Lines 354-439 for the one generation key chosen.
OnePass ==
    /\ pc = "instantiation"
    /\ LET package == package_info[package_idx] IN
        \E file \in ToolOutputs(tool, contents, package[Head(keys)]),
           bytes \in FileSizes(tool),
           manifest_file \in ManifestFiles(tool, contents,
                                           package[ChecksumKey(Head(keys))]) :
            LET r == Instantiation(package, Head(keys), instantiation_counter,
                                   file, bytes, manifest_file,
                                   csv_data[record_idx]["Object Identifier"])
            IN  /\ AssetPart' = <<r.element>>
                /\ raised' = r.raised
                /\ manifest' = manifest_file
                /\ exiftool_json' = file
    /\ sub_item' = Head(keys)
    /\ pc' = "instantiated"
    /\ UNCHANGED <<contents, file_info_list, checksum, tool, csv_data, record_idx,
                   package_info, package_idx, keys, instantiation_counter, mainVars,
                   findVars>>

NextInstantiation == OnePass

SpecInstantiation == InitInstantiation /\ [][NextInstantiation]_vars

-----------------------------------------------------------------------------
(* The descriptive table *)

\* sub in s
RECURSIVE Contains(_, _)
Contains(s, sub) ==
    IF Len(s) < Len(sub) THEN FALSE
    ELSE StartsWith(s, sub) \/ Contains(Tail(s), sub)

\* s[:-1]
ButLast(s) == IF Len(s) = 0 THEN s ELSE SubSeq(s, 1, Len(s) - 1)

\* csv.DictReader over a table whose rows have one cell per column: each
\* row becomes the dictionary from the header's names to the row's cells.
csv_extract(file) ==
    [i \in 1..Len(file.rows) |->
        [column \in { file.header[j] : j \in 1..Len(file.header) } |->
            file.rows[i][CHOOSE j \in 1..Len(file.header) : file.header[j] = column]]]

\* The smallest key of a at which b differs from a (Python 2 characterize).
DiffKeys(a, b) == { k \in DOMAIN a : k \notin DOMAIN b \/ a[k] # b[k] }

MinKey(S) == CHOOSE k \in S : \A j \in S : j = k \/ StrLess(k, j)

\* a < b for two dictionaries (Python 2 dict_compare): the shorter one
\* first, then the one with the smaller first differing key, then the one
\* with the smaller value at that key.
DictLess(a, b) ==
    IF Cardinality(DOMAIN a) # Cardinality(DOMAIN b)
    THEN Cardinality(DOMAIN a) < Cardinality(DOMAIN b)
    ELSE IF DiffKeys(a, b) = {} THEN FALSE
    ELSE LET akey == MinKey(DiffKeys(a, b))
             bkey == MinKey(DiffKeys(b, a))
         IN  IF akey # bkey THEN StrLess(akey, bkey)
             ELSE StrLess(a[akey], b[bkey])

\* sorted(records): a stable sort.
RECURSIVE SortedRecords(_)
SortedRecords(records) ==
    IF records = <<>> THEN <<>>
    ELSE LET last == records[Len(records)]
             front == SortedRecords(SubSeq(records, 1, Len(records) - 1))
             keep == { i \in 1..Len(front) : ~DictLess(last, front[i]) }
             n == Cardinality({ i \in 1..Len(front) : \A j \in 1..i : j \in keep })
         IN  SubSeq(front, 1, n) \o <<last>> \o SubSeq(front, n + 1, Len(front))

\* Every string of the model is ASCII, which decodes as UTF-8: no field is
\* rewritten and the record itself is returned.
check_for_macroman(csv_record) == csv_record

\* Lines 501-505: a value that starts with =" loses these two characters and
\* its last one.
Unquoted(value) ==
    IF Contains(value, "=") /\ UpTo(value, 2) = "=\""
    THEN ButLast(From(value, 2)) ELSE value

Normalised(csv_record) ==
    [field \in DOMAIN check_for_macroman(csv_record) |->
        Unquoted(check_for_macroman(csv_record)[field])]

-----------------------------------------------------------------------------
(* The record of one archival object (lines 506-566) *)

\* The elements add_dc_elements creates, by the variable that holds each
\* (lines 117-133) and its tag (lines 236-252).
DcElements ==
    << <<"dc_identifier", "dc:identifier">>,
       <<"dc_crp_provenance", "dc:provenance">>,
       <<"dc_provenance", "dc:provenance">>,
       <<"dc_type", "dc:type">>,
       <<"dc_format", "dc:format">>,
       <<"dc_title", "dc:title">>,
       <<"dc_creator", "dc:creator">>,
       <<"dc_date", "dc:date">>,
       <<"dc_rights", "dc:rights">>,
       <<"dc_rights_country", "dc:rights">>,
       <<"dc_language", "dc:language">>,
       <<"dc_identifier_cdnp", "dc:identifier">>,
       <<"dc_description_volume", "dc:description">>,
       <<"dc_description_issue", "dc:description">>,
       <<"dc_coverage", "dc:coverage">> >>

\* The loop of add_dc_elements: the element of position counter is inserted
\* at index counter.
RECURSIVE InsertDc(_, _)
InsertDc(children, counter) ==
    IF counter > Len(DcElements) THEN children
    ELSE InsertDc(Insert(children, counter,
                         ElementAs(DcElements[counter][1], DcElements[counter][2])),
                  counter + 1)

add_dc_elements == InsertDc(<<>>, 1)

\* The field each element's text is read from, and the attributes set.
DcSource ==
    [dc_rights |-> "Copyright Statement",
     dc_rights_country |-> "Country of Creation",
     dc_provenance |-> "Institution",
     dc_format |-> "Generation",
     dc_title |-> "Main or Supplied Title",
     dc_creator |-> "Creator",
     dc_identifier |-> "Internet Archive URL",
     dc_type |-> "Type",
     dc_date |-> "Date Published",
     dc_language |-> "Language",
     dc_identifier_cdnp |-> "CDNP Identifier",
     dc_description_volume |-> "Serial Volume",
     dc_description_issue |-> "Serial Issue",
     dc_coverage |-> "Publication Location"]

DcAttrib ==
    [dc_identifier |-> <<"xsi:type", "dcterms:URI">>,
     dc_rights_country |-> <<"type", "Country of Creation">>,
     dc_date |-> <<"type", "Published">>,
     dc_identifier_cdnp |-> <<"type", "CDNP identifier">>,
     dc_description_volume |-> <<"type", "serial volume">>,
     dc_description_issue |-> <<"type", "serial issue">>,
     dc_coverage |-> <<"type", "publication location">>]

\* The text of the elements the function maps to fields, read from the record.
SetTexts(children, source, csv_record) ==
    [i \in 1..Len(children) |->
        IF children[i].id \in DOMAIN source
        THEN [children[i] EXCEPT !.text = <<csv_record[source[children[i].id]]>>]
        ELSE children[i]]

SetAttribs(children, attribs) ==
    [i \in 1..Len(children) |->
        IF children[i].id \in DOMAIN attribs
        THEN SetAttrib(children[i], attribs[children[i].id][1],
                       attribs[children[i].id][2])
        ELSE children[i]]

\* The fields a function reads.
FieldsOf(source) == { source[id] : id \in DOMAIN source }

\* add_DC_metadata: the children of the root, or the KeyError of the first
\* field the record lacks.
add_DC_metadata(csv_record) ==
    IF ~(FieldsOf(DcSource) \subseteq DOMAIN csv_record)
    THEN [raised |-> "KeyError", children |-> <<>>]
    ELSE [raised |-> "",
          children |->
             SetText(SetTexts(SetAttribs(add_dc_elements, DcAttrib), DcSource,
                              csv_record),
                     "dc_crp_provenance", "California Revealed")]

\* The three terms inserted after the creator element instead.
InsertTerms_AfterCreator(children) ==
    Insert(Insert(Insert(children, 7, ElementAs("extent_dimensions", "dcterms:extent")),
                  7, ElementAs("extent_total", "dcterms:extent")),
           7, ElementAs("medium", "dcterms:medium"))

\* Lines 512-521: the three terms, each inserted at index 5.
InsertTerms(children) ==
    Insert(Insert(Insert(children, 5, ElementAs("extent_dimensions", "dcterms:extent")),
                  5, ElementAs("extent_total", "dcterms:extent")),
           5, ElementAs("medium", "dcterms:medium"))

\* Both indices read, then alternative inserted before created.
InsertCreatedAndAlternative_AlternativeFirst(children) ==
    Insert(Insert(children, IndexOf(children, "dc_title") + 1,
                  ElementAs("alternative_title", "dcterms:alternative")),
           IndexOf(children, "dc_creator") + 1,
           ElementAs("created", "dcterms:created"))

\* Lines 523-536: both indices are read, then created and alternative are
\* inserted.
InsertCreatedAndAlternative(children) ==
    Insert(Insert(children, IndexOf(children, "dc_creator") + 1,
                  ElementAs("created", "dcterms:created")),
           IndexOf(children, "dc_title") + 1,
           ElementAs("alternative_title", "dcterms:alternative"))

ExtentFields ==
    <<"Extent (total number of pages)", "Total number of pages",
      "Total Number of Reels or Tapes">>

\* The field read first in place of the first of ExtentFields.
ExtentTotal_SecondFieldFirst(csv_record) ==
    IF ExtentFields[2] \in DOMAIN csv_record
    THEN [raised |-> "", value |-> csv_record[ExtentFields[2]]]
    ELSE IF ExtentFields[1] \in DOMAIN csv_record
    THEN [raised |-> "", value |-> csv_record[ExtentFields[1]]]
    ELSE IF ExtentFields[3] \in DOMAIN csv_record
    THEN [raised |-> "", value |-> csv_record[ExtentFields[3]]]
    ELSE [raised |-> "KeyError", value |-> ""]

\* Lines 538-548: the nested try blocks.
ExtentTotal(csv_record) ==
    IF ExtentFields[1] \in DOMAIN csv_record
    THEN [raised |-> "", value |-> csv_record[ExtentFields[1]]]
    ELSE IF ExtentFields[2] \in DOMAIN csv_record
    THEN [raised |-> "", value |-> csv_record[ExtentFields[2]]]
    ELSE IF ExtentFields[3] \in DOMAIN csv_record
    THEN [raised |-> "", value |-> csv_record[ExtentFields[3]]]
    ELSE [raised |-> "KeyError", value |-> ""]

\* Lines 549-553.
TermSource ==
    [medium |-> "Format",
     extent_dimensions |-> "Extent (dimensions)",
     created |-> "Date Created",
     alternative_title |-> "Additional Title"]

\* The elements of add_asset_elements, in the order they are appended.
AssetElements ==
    <<"objectIdentifier", "callNumber", "projectIdentifier", "assetType",
      "description", "vendorQualityControlNotes">>

\* Lines 561-566.
AssetSource ==
    [callNumber |-> "Call Number",
     projectIdentifier |-> "Project Identifier",
     objectIdentifier |-> "Object Identifier",
     assetType |-> "Asset Type",
     description |-> "Description or Content Summary",
     vendorQualityControlNotes |-> "Quality Control Notes"]

\* add_asset_elements: Assets with the six asset elements and AssetPart,
\* each inserted at index 99 of a parent with fewer children.
add_asset_elements ==
    [Element("Assets") EXCEPT
        !.children = [i \in 1..Len(AssetElements) |-> Element(AssetElements[i])]
                        \o <<Element("AssetPart")>>]

\* Lines 506-566 for a normalised record: the root element as it is when
\* techncial_metadata is called, or the exception that ends the run.
RecordTree(csv_record) ==
    LET dc == add_DC_metadata(csv_record)
        terms == InsertCreatedAndAlternative(InsertTerms(dc.children))
        total == ExtentTotal(csv_record)
        described == SetTexts(SetText(terms, "extent_total", total.value),
                              TermSource, csv_record)
        assets == [add_asset_elements EXCEPT
                      !.children = SetTexts(@, AssetSource, csv_record)]
    IN  IF dc.raised # "" THEN [raised |-> dc.raised, root |-> <<>>]
        ELSE IF total.raised # "" THEN [raised |-> total.raised, root |-> <<>>]
        ELSE IF ~(FieldsOf(TermSource) \cup FieldsOf(AssetSource)
                    \subseteq DOMAIN csv_record)
        THEN [raised |-> "KeyError", root |-> <<>>]
        ELSE [raised |-> "",
              root |-> [Element("metadata") EXCEPT
                           !.children = Insert(described, 99, assets)]]

\* The root element with the children AssetPart has by now.
WithAssetPart(tree, parts) ==
    [tree EXCEPT !.children[Len(tree.children)].children[Len(AssetElements) + 1].children = parts]

\* A pass that also removes the childless elements whose text is empty.
RECURSIVE Pruned_AlsoEmptyText(_)
Pruned_AlsoEmptyText(children) ==
    IF children = <<>> THEN <<>>
    ELSE IF Head(children).children = <<>> /\ Head(children).text \in {<<>>, <<"">>}
    THEN Pruned_AlsoEmptyText(Tail(children))
    ELSE <<[Head(children) EXCEPT !.children = Pruned_AlsoEmptyText(@)]>>
            \o Pruned_AlsoEmptyText(Tail(children))

\* not(node()): no text node and no child.
NoNode(element) == element.text = <<>> /\ element.children = <<>>

\* Lines 570-571: every element below the root that has no node when the
\* expression is evaluated is removed from its parent.
RECURSIVE Pruned(_)
Pruned(children) ==
    IF children = <<>> THEN <<>>
    ELSE IF NoNode(Head(children)) THEN Pruned(Tail(children))
    ELSE <<[Head(children) EXCEPT !.children = Pruned(@)]>> \o Pruned(Tail(children))

-----------------------------------------------------------------------------
(* main *)

\* args.i
SourcePath == "in"

\* The path of the file written for a record.
OutputPath(folder, csv_record) ==
    Join(Join(SourcePath, folder), csv_record["Object Identifier"]) \o "_metadata.xml"

\* The columns of the descriptive table that every run reads.
RequiredColumns ==
    <<"Object Identifier", "Copyright Statement", "Country of Creation",
      "Institution", "Generation", "Main or Supplied Title", "Creator",
      "Internet Archive URL", "Type", "Date Published", "Language",
      "CDNP Identifier", "Serial Volume", "Serial Issue", "Publication Location",
      "Call Number", "Project Identifier", "Asset Type",
      "Description or Content Summary", "Quality Control Notes", "Format",
      "Extent (dimensions)", "Date Created", "Additional Title">>

\* The columns left blank in a table with blank cells.
BlankColumns ==
    {"Creator", "Serial Volume", "Serial Issue", "Additional Title", "Call Number",
     "Description or Content Summary"}

\* The cell of a column in the row of an object.
Cell(column, object_identifier, blank) ==
    IF column = "Object Identifier" THEN object_identifier
    ELSE IF blank /\ column \in BlankColumns THEN ""
    ELSE IF column = "Project Identifier" THEN "=\"0042\""
    ELSE "value of " \o column

\* The names of the archival objects: the third is a name with the quoting
\* the program strips from values.
ObjectNames == {"a", "b", "=\"a\""}

\* The identifiers in the table: a row names no object when its directory
\* is not in the input directory.
RecordNames == ObjectNames

\* The extent columns a table may have.
ExtentChoices == { {1, 2, 3}, {2, 3}, {3}, {} }

\* The largest number of rows in the table and of object directories.
MaxRecords == 2
MaxDirs == 2

RECURSIVE SeqsUpTo(_, _)
SeqsUpTo(S, n) ==
    IF n = 0 THEN {<<>>}
    ELSE SeqsUpTo(S, n - 1)
            \cup { Append(q, x) : q \in { r \in SeqsUpTo(S, n - 1) : Len(r) = n - 1 },
                                  x \in S }

\* A table with the extent columns chosen and a row for each identifier.
Table(extents, names, blank) ==
    LET header == RequiredColumns \o SelectSeq(ExtentFields,
                        LAMBDA f : \E e \in extents : ExtentFields[e] = f)
    IN  [header |-> header,
         rows |-> [i \in 1..Len(names) |->
                     [j \in 1..Len(header) |-> Cell(header[j], names[i], blank)]]]

\* The tables of a run: any of the extent columns with no blank cell, or all
\* of them with blank cells.
Tables ==
    { Table(extents, names, FALSE) :
        extents \in ExtentChoices, names \in SeqsUpTo(RecordNames, MaxRecords) }
    \cup { Table({1, 2, 3}, names, TRUE) : names \in SeqsUpTo(RecordNames, MaxRecords) }

\* What an object directory may hold: nothing, a page and a print copy, or a
\* page whose preservation manifest is missing.
ObjectListings ==
    { {}, PagePack("a") \cup PrintPack("b"), PagePack("a") \ {"a_prsv.tif.md5"} }

\* The input directory: the table's file and some object directories, each
\* with the same files.
SourceFolders ==
    { [entry \in dirs \cup {"metadata.csv"} |->
          [isdir |-> entry \in dirs, listing |-> IF entry \in dirs THEN listing ELSE {}]] :
        dirs \in { d \in SUBSET ObjectNames : Cardinality(d) <= MaxDirs },
        listing \in ObjectListings }

\* The state at line 489, before the first folder.
Init ==
    /\ pc = "records"
    /\ csv_file \in Tables
    /\ source_folder \in SourceFolders
    /\ csv_data = SortedRecords(csv_extract(csv_file))
    /\ folders = Sorted(DOMAIN source_folder)
    /\ folder_idx = 1
    /\ record_idx = 1
    /\ root = <<>>
    /\ written = {}
    /\ AnalyseIdle
    /\ ChecksumIdle
    /\ tool = "typical"
    /\ package_info = <<>>
    /\ package_idx = 1
    /\ keys = <<>>
    /\ sub_item = ""
    /\ instantiation_counter = 1
    /\ exiftool_json = <<>>
    /\ AssetPart = <<>>
    /\ raised = ""
    /\ FindIdle

\* Line 491 for an entry that is no directory.
NotDirectory ==
    /\ pc = "records"
    /\ folder_idx <= Len(folders)
    /\ ~source_folder[folders[folder_idx]].isdir
    /\ folder_idx' = folder_idx + 1
    /\ UNCHANGED <<pc, contents, file_info_list, manifest, checksum, techVars,
                   csv_file, source_folder, folders, root, written,
                   findVars>>

\* Lines 497-498 for a record of another object.
SkipRecord ==
    /\ pc = "records"
    /\ folder_idx <= Len(folders)
    /\ source_folder[folders[folder_idx]].isdir
    /\ record_idx <= Len(csv_data)
    /\ csv_data[record_idx]["Object Identifier"] # folders[folder_idx]
    /\ contents' = source_folder[folders[folder_idx]].listing
    /\ package_info' = analyse_folder(Join(SourcePath, folders[folder_idx]), contents')
    /\ record_idx' = record_idx + 1
    /\ UNCHANGED <<pc, file_info_list, manifest, checksum, tool, csv_data,
                   package_idx, keys, sub_item, instantiation_counter,
                   exiftool_json, AssetPart, raised, mainVars,
                   findVars>>

\* Lines 497-567 for a record of the folder, up to the call of
\* techncial_metadata and its first lines.
MatchRecord ==
    /\ pc = "records"
    /\ folder_idx <= Len(folders)
    /\ source_folder[folders[folder_idx]].isdir
    /\ record_idx <= Len(csv_data)
    /\ csv_data[record_idx]["Object Identifier"] = folders[folder_idx]
    /\ contents' = source_folder[folders[folder_idx]].listing
    /\ package_info' = analyse_folder(Join(SourcePath, folders[folder_idx]), contents')
    /\ csv_data' = [csv_data EXCEPT ![record_idx] = Normalised(@)]
    /\ LET r == RecordTree(csv_data'[record_idx])
       IN  /\ raised' = r.raised
           /\ root' = r.root
           /\ pc' = IF r.raised = "" THEN "tech" ELSE "failed"
    /\ package_idx' = 1
    /\ keys' = IF package_info' = <<>> THEN <<>> ELSE SubItems(package_info'[1])
    /\ instantiation_counter' = 1
    /\ AssetPart' = <<>>
    /\ sub_item' = ""
    /\ UNCHANGED <<file_info_list, manifest, checksum, tool, record_idx,
                   exiftool_json, csv_file, source_folder, folders, folder_idx,
                   written,
                   findVars>>

\* Lines 570-573, and the step to the next record: the file written is
\* from now on an entry of the object directory.
PruneAndWrite ==
    /\ pc = "tech_done"
    /\ root' = [root EXCEPT !.children = Pruned(WithAssetPart(root, AssetPart).children)]
    /\ written' = written \cup {OutputPath(folders[folder_idx], csv_data[record_idx])}
    /\ source_folder' =
          [source_folder EXCEPT ![folders[folder_idx]].listing =
              @ \cup {Basename(OutputPath(folders[folder_idx], csv_data[record_idx]))}]
    /\ record_idx' = record_idx + 1
    /\ pc' = "records"
    /\ UNCHANGED <<contents, file_info_list, manifest, checksum, tool, csv_data,
                   package_info, package_idx, keys, sub_item,
                   instantiation_counter, exiftool_json, AssetPart, raised,
                   csv_file, folders, folder_idx, findVars>>

\* The end of the loop over the records: the next folder.
NextFolder ==
    /\ pc = "records"
    /\ folder_idx <= Len(folders)
    /\ source_folder[folders[folder_idx]].isdir
    /\ record_idx > Len(csv_data)
    /\ folder_idx' = folder_idx + 1
    /\ record_idx' = 1
    /\ UNCHANGED <<pc, contents, file_info_list, manifest, checksum, tool, csv_data,
                   package_info, package_idx, keys, sub_item,
                   instantiation_counter, exiftool_json, AssetPart, raised,
                   csv_file, source_folder, folders, root, written,
                   findVars>>

\* Line 574.
Finished ==
    /\ pc = "records"
    /\ folder_idx > Len(folders)
    /\ pc' = "finished"
    /\ UNCHANGED <<contents, file_info_list, manifest, checksum, techVars, mainVars,
                   findVars>>

Next ==
    \/ NotDirectory
    \/ SkipRecord
    \/ MatchRecord
    \/ SubItem
    \/ EndPackage
    \/ TechReturn
    \/ PruneAndWrite
    \/ NextFolder
    \/ Finished

Spec == Init /\ [][Next]_vars

-----------------------------------------------------------------------------
(* find_csv *)

\* The loop of lines 451-455 over the entries left, with the path chosen so
\* far: continue ends the iteration, never the loop.
RECURSIVE ScanForCsv(_, _, _)
ScanForCsv(source_directory, entries, path) ==
    IF entries = <<>> THEN path
    ELSE ScanForCsv(source_directory, Tail(entries),
                    IF EndsWith(Head(entries), ".csv") /\ ~StartsWith(Head(entries), ".")
                    THEN Join(source_directory, Head(entries))
                    ELSE path)

\* find_csv on a directory with the listing given: the path returned, or
\* the exit of lines 456-459.
find_csv(source_directory, listing) ==
    LET path == ScanForCsv(source_directory, listing, "")
    IN  [exited |-> path = "", csv_path |-> path]

\* The entries an input directory may have, and the most it has.
EntryNames == {"a.csv", "b.csv", ".hidden.csv", "notes.txt", "obj"}

MaxEntries == 3

\* os.listdir gives each entry once, in any order.
DirectoryListings ==
    { q \in SeqsUpTo(EntryNames, MaxEntries) :
        \A i, j \in 1..Len(q) : i # j => q[i] # q[j] }

InitFindCsv ==
    /\ pc = "find_csv"
    /\ file_list \in DirectoryListings
    /\ csv_path = ""
    /\ AnalyseIdle
    /\ ChecksumIdle
    /\ TechIdle
    /\ MainIdle

\* The call of line 483.
FindCsv ==
    /\ pc = "find_csv"
    /\ csv_path' = find_csv(SourcePath, file_list).csv_path
    /\ pc' = IF find_csv(SourcePath, file_list).exited THEN "exited" ELSE "csv_found"
    /\ UNCHANGED <<contents, file_info_list, manifest, checksum, techVars, mainVars,
                   file_list>>

NextFindCsv == FindCsv

SpecFindCsv == InitFindCsv /\ [][NextFindCsv]_vars

-----------------------------------------------------------------------------
(* Properties of analyse_folder *)

\* The entries that qualify for a unit of their own.
Qualifying(listing) ==
    { f \in listing :
        /\ ~StartsWith(f, ".")
        /\ \/ EndsWith(f, "prsv.tif") /\ ~EndsWith(f, "_01_prsv.tif")
           \/ EndsWith(f, ".pdf") }

\* The file a unit was emitted for.
UnitFile(u) == IF "Print" \in DOMAIN u THEN u["Print"] ELSE u["Preservation"]

BaseKeys == {"Preservation", "master_checksum", "Access", "access_checksum"}
VariantKeys == {"Preservation_01", "Preservation_01_md5", "Access_01", "Access_01_md5"}

\* The shape C3 asks of the unit emitted for entry f.
UnitShape(u, f) ==
    IF EndsWith(f, ".pdf")
    THEN /\ DOMAIN u = {"Print", "print_checksum"}
         /\ u["Print"] = Join(FolderName, f)
         /\ u["print_checksum"] = u["Print"] \o ".md5"
    ELSE /\ BaseKeys \subseteq DOMAIN u
         /\ u["Preservation"] = Join(FolderName, f)
         /\ u["master_checksum"] = u["Preservation"] \o ".md5"
         /\ u["access_checksum"] = u["Access"] \o ".md5"
         /\ DOMAIN u \in {BaseKeys, BaseKeys \cup VariantKeys}
         /\ (VariantKeys \subseteq DOMAIN u) <=>
                (Replace(f, "prsv.tif", "01_prsv.tif") \in contents)

\* C3: analyse_folder returns one unit per non-hidden entry that ends in
\* prsv.tif but not in _01_prsv.tif or that ends in .pdf, in sorted file name
\* order; a TIFF unit has Preservation, master_checksum, Access and
\* access_checksum, and the four _01 keys exactly when the variant master is
\* on disk; a PDF unit has exactly Print and print_checksum; no qualifying
\* entry gives the empty list.
C3_UnitsPerQualifyingFile ==
    pc = "analysed" =>
        /\ Len(file_info_list) = Cardinality(Qualifying(contents))
        /\ \A i \in 1..Len(file_info_list) :
              \E f \in Qualifying(contents) :
                 /\ UnitFile(file_info_list[i]) = Join(FolderName, f)
                 /\ UnitShape(file_info_list[i], f)
        /\ \A i, j \in 1..Len(file_info_list) :
              i < j => StrLess(Basename(UnitFile(file_info_list[i])),
                               Basename(UnitFile(file_info_list[j])))

C3_Witness ==
    /\ pc = "analysed"
    /\ Len(file_info_list) = 2
    /\ "Print" \in DOMAIN file_info_list[1]
    /\ VariantKeys \subseteq DOMAIN file_info_list[2]

\* C4: no file is both the Preservation_01 of one unit and the Preservation
\* of a unit (no double classification of a variant master).
C4_NoDoubleClassification ==
    pc = "analysed" =>
        \A i, j \in 1..Len(file_info_list) :
            ("Preservation_01" \in DOMAIN file_info_list[i]
                /\ "Preservation" \in DOMAIN file_info_list[j])
            => file_info_list[i]["Preservation_01"] # file_info_list[j]["Preservation"]

-----------------------------------------------------------------------------
(* Properties of extract_checksum *)

\* C6: extract_checksum returns exactly 32 characters, the first 32 of the
\* manifest's first line, for every manifest it accepts, and fails for a
\* missing or an empty manifest.
C6_ChecksumHas32Characters ==
    pc = "extracted" =>
        IF manifest = <<>> \/ manifest = <<"">>
        THEN checksum.raised # ""
        ELSE checksum.raised = ""
                => /\ Len(checksum.value) = 32
                   /\ StartsWith(manifest[1], checksum.value)

-----------------------------------------------------------------------------
(* Properties of techncial_metadata *)

HasChild(children, id) == \E i \in 1..Len(children) : children[i].id = id

\* The text of the child a variable holds (<<>> when it has no text node).
ChildText(children, id) ==
    children[CHOOSE i \in 1..Len(children) : children[i].id = id].text

\* Whether the last output of the tool is that of a file other than a PDF.
RasterOutput ==
    /\ exiftool_json # <<>>
    /\ Lower(ToStr(exiftool_json[1]["FileTypeExtension"])) # "pdf"

\* The sample values a BitsPerSample report lists.
SampleValues(v) == Split(ToStr(v), "")

\* C1: for a file other than a PDF, a single BitsPerSample value b reported
\* together with ColorComponents c gives the bitDepth b * c, whatever the
\* number of digits of b, and several values give their sum (so that b with
\* c components and b repeated c times give the same bitDepth).
C1_BitDepthIsBitsTimesComponents ==
    (pc = "instantiated" /\ RasterOutput /\ raised = ""
        /\ "BitsPerSample" \in DOMAIN exiftool_json[1])
    => LET bits == SampleValues(exiftool_json[1]["BitsPerSample"])
           technical == TechnicalOf(AssetPart[1])
       IN  IF Len(bits) = 1
           THEN "ColorComponents" \in DOMAIN exiftool_json[1]
                => ChildText(technical, "bitDepth") =
                     <<IntToStr(ParseInt(bits[1])
                                 * ToInt(exiftool_json[1]["ColorComponents"]))>>
           ELSE ChildText(technical, "bitDepth") = <<IntToStr(SumInts(bits))>>

\* The five optional technical elements and the fields they are filled from.
OptionalElements ==
    { <<"samplesPerPixel", "ColorComponents">>, <<"compression", "Compression">>,
      <<"creatingApplicationAndVersion", "CreatorTool">>,
      <<"digitizerManufacturer", "Make">>, <<"digitizerModel", "Model">> }

\* C2: when the tool read the file and the manifest is not empty, each
\* optional element carries the value of its field if the tool reported the
\* field and is removed if it did not, whatever the other four fields, and
\* the pass ends without an exception.
C2_OptionalFieldsOmittedIndependently ==
    (pc = "instantiated" /\ exiftool_json # <<>> /\ manifest # <<"">>
        /\ (RasterOutput => "BitsPerSample" \in DOMAIN exiftool_json[1]))
    => /\ raised = ""
       /\ \A e \in OptionalElements :
            LET technical == TechnicalOf(AssetPart[1])
            IN  IF e[2] \in DOMAIN exiftool_json[1]
                THEN /\ HasChild(technical, e[1])
                     /\ ChildText(technical, e[1]) = <<ToStr(exiftool_json[1][e[2]])>>
                ELSE ~HasChild(technical, e[1])

\* The position of a tag in the declared order.
FieldRank(tag) == CHOOSE i \in 1..Len(TechnicalFields) : TechnicalFields[i] = tag

\* C10: in every instantiation, Print included, the technical elements
\* appear in the declared order.
C10_TechnicalElementsInDeclaredOrder ==
    (pc = "instantiated" /\ raised = "") =>
        \A n \in 1..Len(AssetPart) :
            LET technical == TechnicalOf(AssetPart[n])
            IN  \A i, j \in 1..Len(technical) :
                    i < j => FieldRank(technical[i].tag) < FieldRank(technical[j].tag)

\* The generation keys of a unit.
GenerationKeys(package) == DOMAIN package \cap Generations

\* The number of units before unit n that are not Print units.
RECURSIVE PagesBefore(_, _)
PagesBefore(units, n) ==
    IF n <= 1 THEN 0
    ELSE PagesBefore(units, n - 1)
            + (IF "Print" \in DOMAIN units[n - 1] THEN 0 ELSE 1)

\* The labels C5 asks for, one per instantiation, unit after unit.
RECURSIVE ExpectedLabels(_, _)
ExpectedLabels(units, n) ==
    IF n > Len(units) THEN <<>>
    ELSE [i \in 1..Cardinality(GenerationKeys(units[n])) |->
             IF "Print" \in DOMAIN units[n] THEN "object"
             ELSE "Page " \o IntToStr(1 + PagesBefore(units, n))]
         \o ExpectedLabels(units, n + 1)

\* C5: every instantiation that is not Print is labelled Page N, N being 1
\* plus the number of units before its own that are not Print units; every
\* Print instantiation is labelled object and takes no page number.
C5_PageNumbering ==
    pc \in {"tech", "failed", "tech_done"} =>
        /\ Len(AssetPart) <= Len(ExpectedLabels(package_info, 1))
        /\ \A i \in 1..Len(AssetPart) :
              AssetPart[i].attrib["relationship"] = ExpectedLabels(package_info, 1)[i]
        /\ pc = "tech_done" => Len(AssetPart) = Len(ExpectedLabels(package_info, 1))

\* A run over a page, a print copy and a second page.
C5_Witness ==
    /\ pc = "tech_done"
    /\ \E i, j, k \in 1..Len(AssetPart) :
          /\ i < j /\ j < k
          /\ AssetPart[i].attrib["relationship"] = "Page 1"
          /\ AssetPart[j].attrib["relationship"] = "object"
          /\ AssetPart[k].attrib["relationship"] = "Page 2"

-----------------------------------------------------------------------------
(* Properties of main *)

\* The elements below a parent, in document order.
RECURSIVE Below(_)
Below(children) ==
    IF children = <<>> THEN <<>>
    ELSE <<Head(children)>> \o Below(Head(children).children) \o Below(Tail(children))

\* What identifies an element apart from its children.
Signature(element) ==
    [id |-> element.id, tag |-> element.tag, attrib |-> element.attrib,
     text |-> element.text]

Signatures(elements) == [i \in 1..Len(elements) |-> Signature(elements[i])]

\* An element with no text node and no child, and one with no text to show
\* and no child.
Collapsed(element) == element.children = <<>> /\ element.text = <<>>

Empty(element) == element.children = <<>> /\ element.text \in {<<>>, <<"">>}

\* The step of the pruning pass.
PruningStep == pc = "tech_done" /\ pc' = "records"

\* The tree that the pass is run on.
Tree == WithAssetPart(root, AssetPart)

\* The elements of the tree that have a child are those of the pruned tree
\* that have one, in the same order.
ParentsKept ==
    LET before == Below(Tree.children)
        after == Below(root'.children)
    IN  /\ Signatures(SelectSeq(before, LAMBDA e : e.children # <<>>))
             = Signatures(SelectSeq(after, LAMBDA e : e.children # <<>>))
        /\ Len(SelectSeq(before, LAMBDA e : e.children # <<>>)) > 0

\* C7 as stated: after the pruning pass no element below the root is left
\* with neither content nor children, the elements whose value in the
\* descriptive record is the empty string included, and every element that
\* had a child when the pass ran is still there.
C7_NoEmptyElementAfterPruning ==
    [][PruningStep =>
          /\ \A i \in 1..Len(Below(root'.children)) :
                ~Empty(Below(root'.children)[i])
          /\ ParentsKept]_vars

\* C7: the pruning pass removes exactly the elements below the root that
\* have no text node and no child, so none of these is left; an element
\* whose text was set to the empty string is kept, as is every element
\* that had a child when the pass ran.
C7_PruningRemovesCollapsedElements ==
    [][PruningStep =>
          /\ Signatures(Below(root'.children))
                = Signatures(SelectSeq(Below(Tree.children),
                                       LAMBDA e : ~Collapsed(e)))
          /\ \A i \in 1..Len(Below(root'.children)) :
                ~Collapsed(Below(root'.children)[i])
          /\ ParentsKept]_vars

\* A record with blank cells was written for an object with a print copy:
\* the elements set to the empty string are in the pruned tree, the raster
\* elements of the print copy, never populated, are not.
C7_Witness ==
    /\ pc = "records"
    /\ written # {}
    /\ \E i \in 1..Len(Below(root.children)) :
          /\ Below(root.children)[i].id = "dc_creator"
          /\ Below(root.children)[i].text = <<"">>
    /\ \E i \in 1..Len(Below(root.children)) :
          /\ Below(root.children)[i].id = "instantation"
          /\ Below(root.children)[i].attrib["generation"] = "Print"
          /\ ~HasChild(Below(root.children)[i].children[1].children, "imageWidth")
          /\ HasChild(Below(root.children)[i].children[1].children, "md5")

\* The first of ExtentFields that the record has.
FirstExtent(csv_record) ==
    ExtentFields[CHOOSE i \in 1..3 :
                    /\ ExtentFields[i] \in DOMAIN csv_record
                    /\ \A j \in 1..(i - 1) : ExtentFields[j] \notin DOMAIN csv_record]

NoExtent(csv_record) == \A i \in 1..3 : ExtentFields[i] \notin DOMAIN csv_record

\* C8: the text of the total extent element is the value of the first
\* field the record has among Extent (total number of pages), Total number
\* of pages and Total Number of Reels or Tapes; a record with none of the
\* three ends the run with a KeyError, and no file is written for it.
C8_ExtentFallback ==
    /\ pc \in {"tech", "tech_done"} =>
          /\ ~NoExtent(csv_data[record_idx])
          /\ ChildText(root.children, "extent_total")
                = <<csv_data[record_idx][FirstExtent(csv_data[record_idx])]>>
    /\ (csv_data # <<>> /\ NoExtent(csv_data[1])) =>
          /\ written = {}
          /\ pc \in {"records", "failed", "finished"}
          /\ pc = "failed" => raised = "KeyError"
          /\ pc = "finished" =>
                \A i \in 1..Len(csv_data) :
                    csv_data[i]["Object Identifier"] \notin DOMAIN source_folder

\* The record has the second and the third field only, and the second one's
\* value was used.
C8_Witness ==
    /\ pc = "tech_done"
    /\ ExtentFields[1] \notin DOMAIN csv_data[record_idx]
    /\ ExtentFields[3] \in DOMAIN csv_data[record_idx]
    /\ ChildText(root.children, "extent_total") = <<"value of Total number of pages">>

\* The object directories of the input directory.
Directories == { d \in DOMAIN source_folder : source_folder[d].isdir }

\* The files written into a directory.
WrittenInto(d) ==
    { path \in written :
        /\ StartsWith(path, Join(SourcePath, d) \o "/")
        /\ EndsWith(path, "_metadata.xml") }

\* C9: when the run completes, a directory holds a metadata file exactly
\* when some record of the table has the directory's name as its Object
\* Identifier.
C9_OutputIffRecordMatchesDirectory ==
    pc = "finished" =>
        \A d \in Directories :
            (WrittenInto(d) # {}) <=>
                (\E i \in 1..Len(csv_file.rows) :
                    csv_extract(csv_file)[i]["Object Identifier"] = d)

\* The states in which the descriptive block is built and not yet pruned.
Described == pc \in {"tech", "tech_done"}

\* The position of the element a variable holds among the root's children.
Position(id) == IndexOf(root.children, id)

\* C11 as stated: the two extent elements and the medium element come after
\* both the title and the creator element and before the date element.
C11_TermsAfterTitleAndCreator ==
    Described =>
        \A id \in {"extent_dimensions", "extent_total", "medium"} :
            /\ Position(id) > Position("dc_title")
            /\ Position(id) > Position("dc_creator")
            /\ Position(id) < Position("dc_date")

\* C11: the medium element, the total extent element and the dimensions
\* extent element are, in this order, the next siblings of the format
\* element, and the title element follows them.
C11_TermsBetweenFormatAndTitle ==
    Described =>
        /\ Position("medium") = Position("dc_format") + 1
        /\ Position("extent_total") = Position("dc_format") + 2
        /\ Position("extent_dimensions") = Position("dc_format") + 3
        /\ Position("dc_title") = Position("dc_format") + 4
        /\ Position("dc_creator") > Position("dc_title")
        /\ Position("dc_date") > Position("dc_creator")

\* The block of a record is built, with the three terms and the skeleton's
\* fifteen elements in it.
C11_Witness ==
    /\ pc = "tech"
    /\ HasChild(root.children, "medium")
    /\ HasChild(root.children, "extent_total")
    /\ HasChild(root.children, "extent_dimensions")
    /\ Cardinality({ i \in 1..Len(root.children) :
                        StartsWith(root.children[i].id, "dc_") }) = 15

\* C12: before pruning, the created element is the next sibling of the
\* creator element and the alternative element is the next sibling of the
\* title element, after the three terms have shifted both.
C12_CreatedAndAlternativeFollowTheirSiblings ==
    Described =>
        /\ Position("created") = Position("dc_creator") + 1
        /\ Position("alternative_title") = Position("dc_title") + 1
        /\ root.children[Position("created") + 1].tag = "dcterms:created"
        /\ root.children[Position("alternative_title") + 1].tag = "dcterms:alternative"

\* The block is built: the three terms stand before the title element, and
\* both insertions have been made.
C12_Witness ==
    /\ pc = "tech"
    /\ Position("medium") < Position("dc_title")
    /\ HasChild(root.children, "created")
    /\ HasChild(root.children, "alternative_title")
    /\ Position("dc_creator") = Position("dc_title") + 2

-----------------------------------------------------------------------------
(* Properties of find_csv *)

\* The entries of the listing that end in .csv and do not start with a dot.
CsvEntries ==
    { i \in 1..Len(file_list) :
        EndsWith(file_list[i], ".csv") /\ ~StartsWith(file_list[i], ".") }

\* C13: find_csv returns the path of the first entry of the listing that
\* ends in .csv and does not start with a dot; when the listing has no such
\* entry the process exits, and no archival object is processed.
C13_FirstCsvIsSelected ==
    pc \in {"csv_found", "exited"} =>
        /\ CsvEntries # {} =>
              /\ pc = "csv_found"
              /\ csv_path = Join(SourcePath,
                                 file_list[CHOOSE i \in CsvEntries :
                                              \A j \in CsvEntries : i <= j])
        /\ CsvEntries = {} => pc = "exited" /\ written = {}

=============================================================================
